---- MODULE Spec2Model ----
(***************************************************************************)
(* A model of libwyag.py: the repository skeleton (GitRepository,          *)
(* repo_dir, repo_file, repo_create, repo_find) and the object store       *)
(* (GitObject, GitBlob, object_read, object_write, hash_object).           *)
(*                                                                         *)
(* Byte strings are sequences of byte values.  Python indices are kept     *)
(* 0-based in the operators that model bytes.find and slicing.             *)
(***************************************************************************)
EXTENDS Integers, Sequences, FiniteSets, TLC

VARIABLES objdirs, objfiles, hist, fs, op, pc, wkey, wres

vars == <<objdirs, objfiles, hist, fs, op, pc, wkey, wres>>

objvars == <<objdirs, objfiles, hist>>
repovars == <<fs, op>>
procvars == <<pc, wkey, wres>>

-----------------------------------------------------------------------------
(* Bounds *)

\* longest payload handed to hash_object
MaxLen == 1
\* longest history of object-store operations that is explored
MaxOps == 2
\* deepest directory below the filesystem root
MaxDepth == 3
\* stands for sys.getrecursionlimit(): frames repo_find may stack up
RecursionLimit == 3

-----------------------------------------------------------------------------
(* Bytes *)

SP == 32
NUL == 0
Digits == 48..57

\* payload bytes: a letter and the byte that ends the header
PayloadBytes == {NUL, 97}

RECURSIVE SeqsUpTo(_, _)
SeqsUpTo(S, n) ==
    IF n = 0 THEN {<<>>}
    ELSE LET shorter == SeqsUpTo(S, n - 1)
         IN  shorter \cup {Append(s, b) : s \in shorter, b \in S}

Payloads == SeqsUpTo(PayloadBytes, MaxLen)

BLOB == <<98, 108, 111, 98>>
TREE == <<116, 114, 101, 101>>
COMMIT == <<99, 111, 109, 109, 105, 116>>
TAG == <<116, 97, 103>>
\* a label object_read does not know
BLUB == <<98, 108, 117, 98>>

Kinds == {BLOB, TREE, COMMIT, TAG}

\* bytes[i:j] with Python's treatment of negative and out-of-range indices
PyIndex(n, i) == IF i < 0 THEN (IF i + n < 0 THEN 0 ELSE i + n)
                 ELSE IF i > n THEN n ELSE i

PySlice(s, i, j) ==
    LET a == PyIndex(Len(s), i)
        b == PyIndex(Len(s), j)
    IN  IF a >= b THEN <<>> ELSE SubSeq(s, a + 1, b)

\* bytes[i:]
PySliceFrom(s, i) == PySlice(s, i, Len(s))

\* bytes.find(b, start): lowest 0-based index >= start holding b, else -1
PyFind(s, b, start) ==
    LET a == PyIndex(Len(s), start)
        hits == {i \in a..(Len(s) - 1) : s[i + 1] = b}
    IN  IF hits = {} THEN -1
        ELSE CHOOSE i \in hits : \A k \in hits : i <= k

\* str(n).encode() for n >= 0
RECURSIVE PyStr(_)
PyStr(n) == IF n < 10 THEN <<48 + n>>
            ELSE Append(PyStr(n \div 10), 48 + (n % 10))

RECURSIVE StripLeft(_)
StripLeft(s) == IF s # <<>> /\ Head(s) = SP THEN StripLeft(Tail(s)) ELSE s

RECURSIVE StripRight(_)
StripRight(s) == IF s # <<>> /\ s[Len(s)] = SP
                 THEN StripRight(SubSeq(s, 1, Len(s) - 1)) ELSE s

RECURSIVE DigitsValue(_)
DigitsValue(s) == IF s = <<>> THEN 0
                  ELSE 10 * DigitsValue(SubSeq(s, 1, Len(s) - 1)) + (s[Len(s)] - 48)

\* int(bytes): surrounding blanks are dropped, the rest must be decimal
\* digits; -1 stands for ValueError
PyInt(s) ==
    LET t == StripRight(StripLeft(s))
    IN  IF t # <<>> /\ \A i \in 1..Len(t) : t[i] \in Digits
        THEN DigitsValue(t) ELSE -1

-----------------------------------------------------------------------------
(* zlib and hashlib *)

ZHeader == 120
ZModulus == 251

RECURSIVE ByteSum(_)
ByteSum(s) == IF s = <<>> THEN 0 ELSE Head(s) + ByteSum(Tail(s))

ZCheck(s) == (1 + ByteSum(s)) % ZModulus

\* zlib.compress: a header byte, the data, a checksum of the data
zlib_compress(s) == <<ZHeader>> \o s \o <<ZCheck(s)>>

\* zlib.decompress accepts only a well-formed stream
ZValid(z) == /\ Len(z) >= 2
             /\ z[1] = ZHeader
             /\ z[Len(z)] = ZCheck(SubSeq(z, 2, Len(z) - 1))

zlib_decompress(z) == SubSeq(z, 2, Len(z) - 1)

\* The digest is cut to three hexadecimal digits: sha[0:2] becomes the
\* leading digit, sha[2:] the two that remain.
RestSpace == 256
FanOut == 16
DigestSpace == FanOut * RestSpace

RECURSIVE Digest(_, _)
Digest(s, h) == IF s = <<>> THEN h
                ELSE Digest(Tail(s), (h * 131 + Head(s) + 1) % DigestSpace)

\* hashlib.sha1(result).hexdigest()
sha1_hexdigest(s) == Digest(s, 7)

\* sha[0:2]
ShaDir(sha) == sha \div RestSpace

Keys == 0..(DigestSpace - 1)
Prefixes == 0..(FanOut - 1)

-----------------------------------------------------------------------------
(* GitObject, GitBlob *)

\* an instance: its class's fmt, and blobdata once deserialize has set it
NoObject == [fmt |-> <<>>, has |-> FALSE, blobdata |-> <<>>]

\* GitObject.__init__ of the GitBlob subclass: "if data:" skips deserialize
\* for the empty byte string
GitBlob(data) ==
    IF data # <<>> THEN [fmt |-> BLOB, has |-> TRUE, blobdata |-> data]
    ELSE [fmt |-> BLOB, has |-> FALSE, blobdata |-> <<>>]

\* the header and data that object_write hashes and stores
Encoded(fmt, data) == fmt \o <<SP>> \o PyStr(Len(data)) \o <<NUL>> \o data

-----------------------------------------------------------------------------
(* repo_dir and repo_file below .git/objects *)

\* repo_dir(repo, "objects", sha[0:2], mkdir): the path's kind decides
RepoDirStatus(kind, mkdir) ==
    IF kind = "dir" THEN "path"
    ELSE IF kind = "file" THEN "NotADirectory"
    ELSE IF mkdir THEN "created"
    ELSE "None"

\* repo_file returns a path only when repo_dir returned one
RepoFileStatus(kind, mkdir) ==
    LET d == RepoDirStatus(kind, mkdir)
    IN  IF d \in {"path", "created"} THEN "path" ELSE d

HasFile(files, sha) == sha \in DOMAIN files

-----------------------------------------------------------------------------
(* object_read *)

\* the parse of the decompressed bytes, lines 191-210
Decode(raw) ==
    LET x == PyFind(raw, SP, 0)
        fmt == PySlice(raw, 0, x)
        y == PyFind(raw, NUL, x)
        size == PyInt(PySlice(raw, x, y))
        data == PySliceFrom(raw, y + 1)
    IN  IF size = -1 THEN [status |-> "ValueError", obj |-> NoObject]
        ELSE IF size # Len(raw) - y - 1
             THEN [status |-> "MalformedObject", obj |-> NoObject]
        ELSE IF fmt \in {COMMIT, TREE, TAG}
             THEN [status |-> "NameError", obj |-> NoObject]
        ELSE IF fmt = BLOB THEN [status |-> "ok", obj |-> GitBlob(data)]
        ELSE [status |-> "UnknownObjectType", obj |-> NoObject]

object_read(dirs, files, sha) ==
    LET path == RepoFileStatus(dirs[ShaDir(sha)], FALSE)
    IN  IF path = "NotADirectory" THEN [status |-> "NotADirectory", obj |-> NoObject]
        ELSE IF path = "None" THEN [status |-> "TypeError", obj |-> NoObject]
        ELSE IF ~HasFile(files, sha) THEN [status |-> "None", obj |-> NoObject]
        ELSE IF ~ZValid(files[sha]) THEN [status |-> "zlib.error", obj |-> NoObject]
        ELSE Decode(zlib_decompress(files[sha]))

-----------------------------------------------------------------------------
(* object_write, hash_object *)

\* object_write(obj, repo): status, returned sha, and the store afterwards
object_write(obj, withRepo, dirs, files) ==
    IF ~obj.has
    THEN [status |-> "AttributeError", sha |-> -1, dirs |-> dirs, files |-> files]
    ELSE LET result == Encoded(obj.fmt, obj.blobdata)
             sha == sha1_hexdigest(result)
             d == ShaDir(sha)
             path == RepoFileStatus(dirs[d], TRUE)
         IN  IF ~withRepo
             THEN [status |-> "ok", sha |-> sha, dirs |-> dirs, files |-> files]
             ELSE IF path # "path"
             THEN [status |-> path, sha |-> -1, dirs |-> dirs, files |-> files]
             ELSE [status |-> "ok", sha |-> sha,
                   dirs |-> [dirs EXCEPT ![d] = "dir"],
                   files |-> IF HasFile(files, sha) THEN files
                             ELSE (sha :> zlib_compress(result)) @@ files]

\* hash_object(fd, fmt, repo): only GitBlob is a class of the module
hash_object(data, fmt, withRepo, dirs, files) ==
    IF fmt # BLOB
    THEN [status |-> "NameError", sha |-> -1, dirs |-> dirs, files |-> files]
    ELSE object_write(GitBlob(data), withRepo, dirs, files)


-----------------------------------------------------------------------------
(* The directory tree: one directory per depth below the root, each with   *)
(* the state of its .git                                                   *)

Levels == 0..MaxDepth

SkeletonDirs == {"branches", "objects", "refs", "refs/tags", "refs/heads"}
Skeleton == SkeletonDirs \cup {"description", "HEAD", "config"}

DescriptionText == "Unnamed repository; edit this file 'description' to name the repository.\n"
HeadText == "ref: refs/heads/master\n"

\* what configparser holds of [core] repositoryformatversion
NoConf == [haskey |-> FALSE, version |-> <<>>]

\* repo_default_config: repositoryformatversion = 0
repo_default_config == [haskey |-> TRUE, version |-> <<48>>]

Node(kind, git, entries, desc, head, conf) ==
    [kind |-> kind, git |-> git, entries |-> entries,
     desc |-> desc, head |-> head, conf |-> conf]

AbsentNode == Node("absent", "absent", {}, "", "", NoConf)
FileNode == Node("file", "absent", {}, "", "", NoConf)
PlainDir == Node("dir", "absent", {}, "", "", NoConf)

\* a store whose config declares the version v
StoreNode(v) == Node("dir", "dir", Skeleton, DescriptionText, HeadText,
                     [haskey |-> TRUE, version |-> v])

\* the states of .git a directory of the initial tree may be in
GitPresets ==
    { Node("dir", "file", {}, "", "", NoConf),
      Node("dir", "dir", {}, "", "", NoConf),
      Node("dir", "dir", {"other"}, "", "", NoConf),
      Node("dir", "dir", Skeleton \ {"config"}, DescriptionText, HeadText, NoConf),
      Node("dir", "dir", Skeleton, DescriptionText, HeadText, NoConf),
      StoreNode(<<48>>), StoreNode(<<49>>), StoreNode(<<97>>) }

\* os.path.join(path, ".git") as seen by exists and isdir
GitKind(n) == IF n.kind = "dir" THEN n.git ELSE "absent"

\* os.path.realpath of a path that is `ups` ".." segments after depth d
realpath(d, ups) == IF d - ups < 0 THEN 0 ELSE d - ups

\* GitRepository.__init__ without the comparison of the version with 0
GitRepository_AnyVersion(n, force) ==
    IF ~(force \/ GitKind(n) = "dir") THEN "NotAGitRepository"
    ELSE LET cf == RepoFileStatus(GitKind(n), FALSE)
             read == cf = "path" /\ "config" \in n.entries
             conf == IF read THEN n.conf ELSE NoConf
         IN  IF cf = "NotADirectory" THEN "NotADirectory"
             ELSE IF ~read /\ ~force THEN "ConfigMissing"
             ELSE IF force THEN "ok"
             ELSE IF ~conf.haskey THEN "NoOptionError"
             ELSE IF PyInt(conf.version) = -1 THEN "ValueError"
             ELSE "ok"

\* GitRepository.__init__(path, force) on the directory n
GitRepository(n, force) ==
    IF ~(force \/ GitKind(n) = "dir") THEN "NotAGitRepository"
    ELSE LET cf == RepoFileStatus(GitKind(n), FALSE)
             read == cf = "path" /\ "config" \in n.entries
             conf == IF read THEN n.conf ELSE NoConf
             version == PyInt(conf.version)
         IN  IF cf = "NotADirectory" THEN "NotADirectory"
             ELSE IF ~read /\ ~force THEN "ConfigMissing"
             ELSE IF force THEN "ok"
             ELSE IF ~conf.haskey THEN "NoOptionError"
             ELSE IF version = -1 THEN "ValueError"
             ELSE IF version # 0 THEN "UnsupportedFormatVersion"
             ELSE "ok"

\* os.makedirs(worktree): every missing directory down to depth d
Makedirs(tree, d) ==
    [k \in Levels |-> IF k <= d /\ tree[k].kind = "absent" THEN PlainDir ELSE tree[k]]

\* repo_create that tests only the worktree, never os.listdir(gitdir)
repo_create_Overwriting(tree, d) ==
    LET n == tree[d]
    IN  IF n.kind = "absent" /\ \E k \in 0..d : tree[k].kind = "file"
        THEN [status |-> "NotADirectoryError", tree |-> tree]
        ELSE [status |-> "ok",
              tree |-> [Makedirs(tree, d) EXCEPT ![d] =
                           Node("dir", "dir", n.entries \cup Skeleton,
                                DescriptionText, HeadText, repo_default_config)]]

\* repo_create that leaves out the write of .git/config
repo_create_NoConfig(tree, d) ==
    LET n == tree[d]
    IN  IF GitRepository(n, TRUE) # "ok"
        THEN [status |-> GitRepository(n, TRUE), tree |-> tree]
        ELSE IF n.kind = "file" THEN [status |-> "TargetNotDirectory", tree |-> tree]
        ELSE IF n.kind = "dir" /\ n.git = "dir" /\ n.entries # {}
             THEN [status |-> "TargetNotEmpty", tree |-> tree]
        ELSE IF n.kind = "absent" /\ \E k \in 0..d : tree[k].kind = "file"
             THEN [status |-> "NotADirectoryError", tree |-> tree]
        ELSE [status |-> "ok",
              tree |-> [Makedirs(tree, d) EXCEPT ![d] =
                           Node("dir", "dir", Skeleton \ {"config"},
                                DescriptionText, HeadText, NoConf)]]

\* repo_create(path) on the directory at depth d: status and tree afterwards
repo_create(tree, d) ==
    LET n == tree[d]
        opened == GitRepository(n, TRUE)
    IN  IF opened # "ok" THEN [status |-> opened, tree |-> tree]
        ELSE IF n.kind = "file" THEN [status |-> "TargetNotDirectory", tree |-> tree]
        ELSE IF n.kind = "dir" /\ n.git = "dir" /\ n.entries # {}
             THEN [status |-> "TargetNotEmpty", tree |-> tree]
        ELSE IF n.kind = "absent" /\ \E k \in 0..d : tree[k].kind = "file"
             THEN [status |-> "NotADirectoryError", tree |-> tree]
        ELSE [status |-> "ok",
              tree |-> [Makedirs(tree, d) EXCEPT ![d] =
                           Node("dir", "dir", Skeleton, DescriptionText, HeadText,
                                repo_default_config)]]

\* repo_find(path, required) with `frames` calls left before the
\* interpreter's recursion limit: status and the worktree of the store
RECURSIVE repo_find(_, _, _, _, _)
repo_find(tree, d, ups, required, frames) ==
    LET path == realpath(d, ups)
        parent == realpath(path, 1)
    IN  IF frames = 0 THEN [status |-> "RecursionError", root |-> -1]
        ELSE IF GitKind(tree[path]) = "dir"
             THEN LET opened == GitRepository(tree[path], FALSE)
                  IN  [status |-> opened, root |-> IF opened = "ok" THEN path ELSE -1]
        ELSE IF parent = path
             THEN [status |-> IF required THEN "NoStoreFound" ELSE "NotFound",
                   root |-> -1]
        ELSE repo_find(tree, path, 0, required, frames - 1)

NoOp == [name |-> "none", path |-> 0, ups |-> 0, required |-> FALSE,
         status |-> "none", root |-> -1, follows |-> -1, before |-> <<>>]

InitObjIdle ==
    /\ objdirs = <<>>
    /\ objfiles = <<>>
    /\ hist = <<>>

InitRepo ==
    /\ \E depth \in Levels, tail \in BOOLEAN, s \in -1..MaxDepth, g \in GitPresets :
          /\ s <= depth
          /\ fs = [d \in Levels |->
                     IF d <= depth THEN (IF d = s THEN g ELSE PlainDir)
                     ELSE IF d = depth + 1 /\ tail THEN FileNode
                     ELSE AbsentNode]
    /\ op = NoOp
    /\ InitObjIdle
    /\ pc = <<>> /\ wkey = <<>> /\ wres = <<>>

\* the path of the create that op records, if it succeeded
JustCreated == IF op.name = "create" /\ op.status = "ok" THEN op.path ELSE -1

\* cmd_init
RepoCreate ==
    \E d \in Levels :
       LET r == repo_create(fs, d)
       IN  /\ fs' = r.tree
           /\ op' = [name |-> "create", path |-> d, ups |-> 0, required |-> FALSE,
                     status |-> r.status, root |-> IF r.status = "ok" THEN d ELSE -1,
                     follows |-> JustCreated, before |-> fs]
           /\ UNCHANGED <<objvars, procvars>>

\* repo_find as cmd_cat_file and cmd_hash_object call it
RepoFind ==
    \E d \in Levels, ups \in 0..1, required \in BOOLEAN :
       LET r == repo_find(fs, d, ups, required, RecursionLimit)
       IN  /\ op' = [name |-> "find", path |-> d, ups |-> ups, required |-> required,
                     status |-> r.status, root |-> r.root,
                     follows |-> JustCreated, before |-> fs]
           /\ UNCHANGED <<fs, objvars, procvars>>

NextRepo == RepoCreate \/ RepoFind

SpecRepo == InitRepo /\ [][NextRepo]_vars

-----------------------------------------------------------------------------
(* Claims about repo_create, repo_find and GitRepository *)

\* the directories from the start of the last find up to the root that hold
\* a .git directory
StartOfFind == realpath(op.path, op.ups)
StoresAbove == {k \in 0..StartOfFind : GitKind(fs[k]) = "dir"}
Nearest == CHOOSE a \in StoresAbove : \A k \in StoresAbove : k <= a

\* C4: a find started in a directory any number of levels below an
\* initialized store returns the store of the nearest ancestor that holds a
\* .git directory.
C4_FindFromBelow ==
    (/\ op.name = "find"
     /\ fs[StartOfFind].kind = "dir"
     /\ StoresAbove # {}) =>
        (GitRepository(fs[Nearest], FALSE) = "ok" =>
            op.status = "ok" /\ op.root = Nearest)

\* C5: a find started where no ancestor holds a .git directory ends at the
\* root: "not found" when not required, NoStoreFound when required.
C5_FindOutside ==
    (op.name = "find" /\ StoresAbove = {}) =>
        op.status = IF op.required THEN "NoStoreFound" ELSE "NotFound"

C9_CreateThenFind ==
    /\ (op.name = "create" /\ op.status = "ok") =>
          /\ GitKind(fs[op.path]) = "dir"
          /\ Skeleton \subseteq fs[op.path].entries
          /\ fs[op.path].conf.haskey
          /\ PyInt(fs[op.path].conf.version) = 0
    /\ (op.name = "find" /\ op.follows = op.path /\ op.ups = 0 /\ op.required) =>
          op.status = "ok" /\ op.root = op.path

\* a required find right after the create of a path that did not exist
C9_Witness ==
    /\ op.name = "find" /\ op.follows = op.path /\ op.ups = 0 /\ op.required
    /\ op.status = "ok" /\ op.root = op.path
    /\ op.path > 0

-----------------------------------------------------------------------------
(* The object store driven by one caller *)

\* an object file some other git wrote, possibly with a wrong length
ForeignLengths == {0, 1, 2, 10}
ForeignPayloads == SeqsUpTo({97}, MaxLen)
ForeignRaws == {k \o <<SP>> \o PyStr(n) \o <<NUL>> \o p :
                  k \in Kinds \cup {BLUB}, n \in ForeignLengths, p \in ForeignPayloads}

NoDirs == [d \in Prefixes |-> "absent"]
NoFiles == <<>>

\* the record kept of one operation
Entry(name, fmt, data, withRepo, sha, status, obj, dirs, files, files2) ==
    [op |-> name, fmt |-> fmt, data |-> data, repo |-> withRepo, sha |-> sha,
     status |-> status, obj |-> obj,
     dirWas |-> IF sha \in Keys THEN dirs[ShaDir(sha)] ELSE "absent",
     hadFile |-> HasFile(files, sha),
     fileWas |-> IF HasFile(files, sha) THEN files[sha] ELSE <<>>,
     hasFile |-> HasFile(files2, sha),
     file |-> IF HasFile(files2, sha) THEN files2[sha] ELSE <<>>]

InitRepoIdle ==
    /\ fs = <<>>
    /\ op = <<>>

InitProcIdle ==
    /\ pc = <<>>
    /\ wkey = <<>>
    /\ wres = <<>>

InitObj ==
    /\ \/ objdirs = NoDirs /\ objfiles = NoFiles
       \/ \E raw \in ForeignRaws :
             LET sha == sha1_hexdigest(raw)
             IN  /\ objdirs = [NoDirs EXCEPT ![ShaDir(sha)] = "dir"]
                 /\ objfiles = (sha :> zlib_compress(raw))
    /\ hist = <<>>
    /\ InitRepoIdle
    /\ InitProcIdle

Remember(e) == hist' = Append(hist, e)

\* hash_object on the bytes of a file, with -w (withRepo) or without
HashObject ==
    \E fmt \in Kinds, data \in Payloads, withRepo \in BOOLEAN :
       LET r == hash_object(data, fmt, withRepo, objdirs, objfiles)
       IN  /\ Len(hist) < MaxOps
           /\ objdirs' = r.dirs
           /\ objfiles' = r.files
           /\ Remember(Entry("write", fmt, data, withRepo, r.sha, r.status,
                             NoObject, objdirs, objfiles, r.files))
           /\ UNCHANGED <<repovars, procvars>>

\* the keys a caller asks for: those of the blobs it may have written, and
\* whatever is in the store
ReadKeys == {sha1_hexdigest(Encoded(BLOB, p)) : p \in Payloads} \cup DOMAIN objfiles

ObjectRead ==
    \E sha \in ReadKeys :
       LET r == object_read(objdirs, objfiles, sha)
       IN  /\ Len(hist) < MaxOps
           /\ Remember(Entry("read", <<>>, <<>>, TRUE, sha, r.status, r.obj,
                             objdirs, objfiles, objfiles))
           /\ UNCHANGED <<objdirs, objfiles, repovars, procvars>>

NextObj == HashObject \/ ObjectRead

SpecObj == InitObj /\ [][NextObj]_vars

TypeObj == /\ \A d \in Prefixes : objdirs[d] \in {"absent", "dir", "file"}
           /\ DOMAIN objfiles \subseteq Keys

\* the digest tells apart all the byte strings the model hashes
DigestDomain == {Encoded(k, p) : k \in Kinds, p \in Payloads} \cup ForeignRaws
CollisionFree == \A a, b \in DigestDomain :
                    sha1_hexdigest(a) = sha1_hexdigest(b) => a = b

-----------------------------------------------------------------------------
(* Claims about the object store *)

\* C1: for every kind and payload, the empty one included, a write into the
\* store returns a key, and a read of that key right after it returns an
\* object of that kind with exactly that payload.
C1_WriteThenRead ==
    \A i \in 1..Len(hist) :
       (hist[i].op = "write" /\ hist[i].repo) =>
          /\ hist[i].status = "ok"
          /\ (i < Len(hist) /\ hist[i + 1].op = "read"
                /\ hist[i + 1].sha = hist[i].sha) =>
                /\ hist[i + 1].status = "ok"
                /\ hist[i + 1].obj.fmt = hist[i].fmt
                /\ hist[i + 1].obj.has
                /\ hist[i + 1].obj.blobdata = hist[i].data

\* C2: for every payload, writing the same blob twice returns the same key
\* both times and leaves the object file as the first write left it.
C2_WriteTwice ==
    \A i \in 1..(Len(hist) - 1) :
       (/\ hist[i].op = "write" /\ hist[i + 1].op = "write"
        /\ hist[i].repo /\ hist[i + 1].repo
        /\ hist[i].fmt = BLOB /\ hist[i + 1].fmt = BLOB
        /\ hist[i].data = hist[i + 1].data) =>
          /\ hist[i].status = "ok" /\ hist[i + 1].status = "ok"
          /\ hist[i].sha = hist[i + 1].sha
          /\ hist[i].hasFile /\ hist[i + 1].hasFile
          /\ hist[i + 1].file = hist[i].file

\* C3: a read of a key that has no object file returns None, whether or not
\* the fan-out directory of the key exists.
C3_ReadMissing ==
    \A i \in 1..Len(hist) :
       (hist[i].op = "read" /\ ~hist[i].hadFile) => hist[i].status = "None"

\* C8: a read of an object file whose bytes carry one of the four kind
\* labels fails with MalformedObject exactly when the declared length
\* differs from the number of bytes after the NUL, and otherwise returns the
\* bytes after the NUL as payload.
C8_LengthCheck ==
    \A i \in 1..Len(hist) :
       (hist[i].op = "read" /\ hist[i].hadFile /\ ZValid(hist[i].fileWas)) =>
          LET raw == zlib_decompress(hist[i].fileWas)
              x == PyFind(raw, SP, 0)
              y == PyFind(raw, NUL, x)
              declared == PyInt(PySlice(raw, x, y))
              actual == Len(PySliceFrom(raw, y + 1))
          IN  (x >= 0 /\ y >= 0 /\ PySlice(raw, 0, x) \in Kinds /\ declared >= 0) =>
                 /\ (hist[i].status = "MalformedObject") <=> (declared # actual)
                 /\ (declared = actual) =>
                       /\ hist[i].status = "ok"
                       /\ hist[i].obj.has
                       /\ hist[i].obj.blobdata = PySliceFrom(raw, y + 1)

-----------------------------------------------------------------------------
(* Two processes in object_write on the same store.  Every call of the os  *)
(* module is one step; the processes share nothing but the directory tree. *)

Writers == {1, 2}

\* blobs that serialize: the payloads of object_write in the two processes
WriterPayloads == SeqsUpTo(PayloadBytes, MaxLen + 1) \ {<<>>}

NoCall == [data |-> <<>>, sha |-> -1]

InitProc ==
    /\ objdirs = NoDirs
    /\ objfiles = NoFiles
    /\ hist = <<>>
    /\ InitRepoIdle
    /\ pc = [w \in Writers |-> "idle"]
    /\ wkey = [w \in Writers |-> NoCall]
    /\ wres = [w \in Writers |-> "none"]

\* lines 215-219: serialize, add the header, hash
WriteBegin(w) ==
    \E data \in WriterPayloads :
       /\ pc[w] = "idle"
       /\ wkey' = [wkey EXCEPT ![w] =
                     [data |-> data, sha |-> sha1_hexdigest(Encoded(BLOB, data))]]
       /\ pc' = [pc EXCEPT ![w] = "exists"]
       /\ wres' = [wres EXCEPT ![w] = "running"]
       /\ UNCHANGED <<objdirs, objfiles, hist, repovars>>

\* repo_dir lines 65-69: os.path.exists and os.path.isdir of objects/xx
DirExists(w) ==
    /\ pc[w] = "exists"
    /\ LET kind == objdirs[ShaDir(wkey[w].sha)]
       IN  /\ pc' = [pc EXCEPT ![w] = IF kind = "dir" THEN "probe"
                                      ELSE IF kind = "file" THEN "failed"
                                      ELSE "makedirs"]
           /\ wres' = [wres EXCEPT ![w] = IF kind = "file" THEN "NotADirectory"
                                          ELSE "running"]
    /\ UNCHANGED <<objdirs, objfiles, hist, repovars, wkey>>

\* repo_dir line 73: os.makedirs(path) raises when the path is there by now
DirCreate(w) ==
    /\ pc[w] = "makedirs"
    /\ LET d == ShaDir(wkey[w].sha)
       IN  IF objdirs[d] = "absent"
           THEN /\ objdirs' = [objdirs EXCEPT ![d] = "dir"]
                /\ pc' = [pc EXCEPT ![w] = "probe"]
                /\ wres' = wres
           ELSE /\ objdirs' = objdirs
                /\ pc' = [pc EXCEPT ![w] = "failed"]
                /\ wres' = [wres EXCEPT ![w] = "FileExistsError"]
    /\ UNCHANGED <<objfiles, hist, repovars, wkey>>

\* line 225: os.path.exists of the object file
FileProbe(w) ==
    /\ pc[w] = "probe"
    /\ IF HasFile(objfiles, wkey[w].sha)
       THEN /\ pc' = [pc EXCEPT ![w] = "done"]
            /\ wres' = [wres EXCEPT ![w] = "ok"]
       ELSE /\ pc' = [pc EXCEPT ![w] = "open"]
            /\ wres' = wres
    /\ UNCHANGED <<objdirs, objfiles, hist, repovars, wkey>>

\* line 226: open(path, "wb") creates the file or empties it
FileOpen(w) ==
    /\ pc[w] = "open"
    /\ objfiles' = (wkey[w].sha :> <<>>) @@ objfiles
    /\ pc' = [pc EXCEPT ![w] = "write"]
    /\ UNCHANGED <<objdirs, hist, repovars, wkey, wres>>

\* lines 228-230: the compressed bytes reach the file, the sha is returned
FileWrite(w) ==
    /\ pc[w] = "write"
    /\ objfiles' = (wkey[w].sha :> zlib_compress(Encoded(BLOB, wkey[w].data)))
                      @@ objfiles
    /\ pc' = [pc EXCEPT ![w] = "done"]
    /\ wres' = [wres EXCEPT ![w] = "ok"]
    /\ UNCHANGED <<objdirs, hist, repovars, wkey>>

NextProc ==
    \E w \in Writers :
       \/ WriteBegin(w)
       \/ DirExists(w)
       \/ DirCreate(w)
       \/ FileProbe(w)
       \/ FileOpen(w)
       \/ FileWrite(w)

SpecProc == InitProc /\ [][NextProc]_vars

\* C10: two processes writing objects whose keys share the fan-out
\* directory both complete and return their keys in every interleaving.
C10_BothWritersSucceed ==
    (/\ \A w \in Writers : pc[w] # "idle"
     /\ ShaDir(wkey[1].sha) = ShaDir(wkey[2].sha)) =>
        \A w \in Writers : pc[w] \in {"done", "failed"} => wres[w] = "ok"

====
